---- MODULE Spec2Model ----
(***************************************************************************)
(* A model of balutils/stacked_catalogs.py: the catalog classes (Catalog,  *)
(* GoldCatalog, FitsCatalog, GoldFitsCatalog, DetectionCatalog, H5Catalog, *)
(* McalCatalog, BalrogMcalCatalog), their constructors and their           *)
(* operations, over small tables.                                          *)
(*                                                                         *)
(* Line 100 of the source, "def _set_gold_colname(self, match_type)",      *)
(* lacks its colon; the model reads the method as the statements under it  *)
(* say.                                                                    *)
(*                                                                         *)
(* A table (astropy Table) is a record [colnames, rows]: the set of column *)
(* names and the sequence of rows, each row a function from the column     *)
(* names to integers.  A table without columns has no rows (len(Table())   *)
(* is 0).  Column lists are kept in the order of ColumnOrder.              *)
(***************************************************************************)
EXTENDS Integers, Sequences, FiniteSets, TLC

VARIABLES fits,    \* the columnar (FITS) file on disk
          h5,      \* the hierarchical (HDF5) store on disk, under basepath
          obj,     \* the catalog object
          phase,   \* "new", "live", "failed" (constructor raised), "discarded"
          h5cat,   \* the h5py.File handle the catalog opened
          err,     \* the exception the last call raised, "" when none
          last     \* the last call and its arguments

vars == <<fits, h5, obj, phase, h5cat, err, last>>

(***************************************************************************)
(* Bounds of the model.                                                    *)
(***************************************************************************)
MaxRows == 2        \* rows of a source table in Spec
MaxDupRows == 4     \* rows of the detection file in SpecDup
MaxId == 3          \* bal_id values are 1..MaxId
MaxClose == 2       \* explicit __delete__() calls followed

(***************************************************************************)
(* Column names.  Spell gives the characters of a name, for the string     *)
(* operations of calc_mags (lower(), the substring test, f[-1]).           *)
(***************************************************************************)
ColumnOrder ==
  << "bal_id", "flags_foreground", "flags_badregions", "flags_footprint",
     "meas_FLAGS_GOLD", "meas_FLAGS_GOLD_MOF_ONLY", "meas_FLAGS_GOLD_SOF_ONLY",
     "flags", "T", "psf_T", "snr", "flux_r", "FLUX_g", "flux_g",
     "mag_r", "mag_g", "nosuch" >>

Names == { ColumnOrder[i] : i \in 1..Len(ColumnOrder) }

Pos(name) == CHOOSE i \in 1..Len(ColumnOrder) : ColumnOrder[i] = name

Spell(name) ==
  CASE name = "bal_id"  -> << "b","a","l","_","i","d" >>
    [] name = "flags_foreground" ->
         << "f","l","a","g","s","_","f","o","r","e","g","r","o","u","n","d" >>
    [] name = "flags_badregions" ->
         << "f","l","a","g","s","_","b","a","d","r","e","g","i","o","n","s" >>
    [] name = "flags_footprint" ->
         << "f","l","a","g","s","_","f","o","o","t","p","r","i","n","t" >>
    [] name = "meas_FLAGS_GOLD" ->
         << "m","e","a","s","_","F","L","A","G","S","_","G","O","L","D" >>
    [] name = "meas_FLAGS_GOLD_MOF_ONLY" ->
         << "m","e","a","s","_","F","L","A","G","S","_","G","O","L","D",
            "_","M","O","F","_","O","N","L","Y" >>
    [] name = "meas_FLAGS_GOLD_SOF_ONLY" ->
         << "m","e","a","s","_","F","L","A","G","S","_","G","O","L","D",
            "_","S","O","F","_","O","N","L","Y" >>
    [] name = "flags"   -> << "f","l","a","g","s" >>
    [] name = "T"       -> << "T" >>
    [] name = "psf_T"   -> << "p","s","f","_","T" >>
    [] name = "snr"     -> << "s","n","r" >>
    [] name = "flux_r"  -> << "f","l","u","x","_","r" >>
    [] name = "FLUX_g"  -> << "F","L","U","X","_","g" >>
    [] name = "flux_g"  -> << "f","l","u","x","_","g" >>
    [] name = "mag_r"   -> << "m","a","g","_","r" >>
    [] name = "mag_g"   -> << "m","a","g","_","g" >>
    [] name = "nosuch"  -> << "n","o","s","u","c","h" >>

\* str.lower() on one character
LowerChar(c) ==
  CASE c = "A" -> "a" [] c = "D" -> "d" [] c = "F" -> "f" [] c = "G" -> "g"
    [] c = "L" -> "l" [] c = "M" -> "m" [] c = "N" -> "n" [] c = "O" -> "o"
    [] c = "S" -> "s" [] c = "T" -> "t" [] c = "U" -> "u" [] c = "X" -> "x"
    [] c = "Y" -> "y"
    [] OTHER -> c

Lower(s) == [i \in 1..Len(s) |-> LowerChar(s[i])]

\* the Python test  sub in s  on character sequences
Contains(s, sub) ==
  \E i \in 0..(Len(s) - Len(sub)) : \A k \in 1..Len(sub) : s[i + k] = sub[k]

\* 'flux' in c.lower()
HasFlux(name) == Contains(Lower(Spell(name)), << "f","l","u","x" >>)

\* f[-1]
LastChar(name) == Spell(name)[Len(Spell(name))]

(***************************************************************************)
(* Tables.                                                                 *)
(***************************************************************************)
Masked == -1        \* a masked (null) cell of a joined table
Undef == -2         \* an attribute the object does not have (Nobjs)
Unset == "<unset>"  \* a string attribute the object does not have

EmptyTable == [colnames |-> {}, rows |-> << >>]

\* len(table)
TLen(t) == Len(t.rows)

\* the column as a sequence of values
Column(t, c) == [i \in 1..Len(t.rows) |-> t.rows[i][c]]

\* the increasing sequence of the members of a set of integers
RECURSIVE SortedSeq(_)
SortedSeq(S) ==
  IF S = {} THEN << >>
  ELSE LET m == CHOOSE x \in S : \A y \in S : x <= y
       IN  << m >> \o SortedSeq(S \ {m})

\* table[idx], idx a sequence of row positions (what np.where returns)
TakeRows(t, idx) == [t EXCEPT !.rows = [k \in 1..Len(idx) |-> t.rows[idx[k]]]]

\* Table.remove_row(i)
RemoveRow(t, i) ==
  [t EXCEPT !.rows = [k \in 1..(Len(t.rows) - 1) |->
                        IF k < i THEN t.rows[k] ELSE t.rows[k + 1]]]

\* del table[c] / Table.remove_column(c): the last column takes the rows along
RemoveColumn(t, c) ==
  LET keep == t.colnames \ {c}
  IN  IF keep = {} THEN EmptyTable
      ELSE [colnames |-> keep,
            rows |-> [i \in 1..Len(t.rows) |-> [k \in keep |-> t.rows[i][k]]]]

\* table[c] = vals is accepted: a table without columns takes any length
CanSetColumn(t, vals) == t.colnames = {} \/ Len(vals) = Len(t.rows)

\* table[c] = vals
SetColumn(t, c, vals) ==
  [colnames |-> t.colnames \cup {c},
   rows |-> [i \in 1..Len(vals) |->
               [k \in t.colnames \cup {c} |->
                  IF k = c THEN vals[i] ELSE t.rows[i][k]]]]

\* the table restricted to some of its columns (fitsio.read(columns=...))
Project(t, cs) ==
  IF cs = {} THEN EmptyTable
  ELSE [colnames |-> cs,
        rows |-> [i \in 1..Len(t.rows) |-> [k \in cs |-> t.rows[i][k]]]]

(***************************************************************************)
(* Catalog: the base class.                                                *)
(***************************************************************************)
NoneCols == [none |-> TRUE, names |-> {}]       \* cols=None
Cols(S) == [none |-> FALSE, names |-> S]        \* cols=[...]

\* the exceptions the code raises
MissingColumnError ==
  "AttributeError: not found in joined catalog but required for requested cuts!"
InvalidVariantError ==
  "ValueError: match_type can only be default, mof_only, or sof_only"
IntegrityError == "AssertionError"
NoGoldColnameError == "AttributeError: no attribute flags_gold_colname"
NoSuperDeleteError == "AttributeError: 'super' object has no attribute '__delete__'"
KeyErr == "KeyError"
ValueErr == "ValueError"
MergeErr == "TableMergeError"

\* a call's outcome: the exception raised ("" for none) and the object after it
Ok(o) == [err |-> "", obj |-> o]
Raise(e, o) == [err |-> e, obj |-> o]

NoObj ==
  [kind |-> "none", cols |-> NoneCols, match_type |-> Unset,
   flags_gold_colname |-> Unset, Nobjs |-> Undef, cat |-> EmptyTable,
   mcal |-> << >>, det |-> << >>]

ZeroPoint == 30     \* zp=30.
PosInf == 99999     \* -2.5 * log10(0) + zp

\* np.log10 on the fluxes of the model's stores
Log10(f) == CASE f = 1 -> 0 [] f = 10 -> 1 [] f = 100 -> 2

\* flux2mag, in tenths of a magnitude: -2.5 * log10(flux) + zp
flux2mag(flux) ==
  IF flux = 0 THEN PosInf ELSE (10 * ZeroPoint) - (25 * Log10(flux))

\* apply_cut(cut), cut a sequence of row positions
apply_cut(o, cut) ==
  LET c == TakeRows(o.cat, cut)
  IN  [o EXCEPT !.cat = c, !.Nobjs = TLen(c)]

\* _check_for_cols with the test left out
check_for_cols_skipped(o, cols) == TRUE

\* _check_for_cols(cols): TRUE when it returns, FALSE when it raises
check_for_cols(o, cols) == \A col \in cols : col \in o.cat.colnames

(***************************************************************************)
(* GoldCatalog.                                                            *)
(***************************************************************************)
Variants == {"default", "mof_only", "sof_only"}

gold_cut_cols_default ==
  {"flags_foreground", "flags_badregions", "flags_footprint", "meas_FLAGS_GOLD"}
gold_cut_cols_mof_only ==
  {"flags_foreground", "flags_badregions", "flags_footprint",
   "meas_FLAGS_GOLD_MOF_ONLY"}
gold_cut_cols_sof_only ==
  {"flags_foreground", "flags_badregions", "flags_footprint",
   "meas_FLAGS_GOLD_SOF_ONLY"}

\* the dictionary _gold_cut_cols
gold_cut_cols(match_type) ==
  CASE match_type = "default"  -> gold_cut_cols_default
    [] match_type = "mof_only" -> gold_cut_cols_mof_only
    [] match_type = "sof_only" -> gold_cut_cols_sof_only

\* the cols GoldCatalog.__init__ hands on to Catalog.__init__: cols=None
GoldCatalogInitCols(cols) == NoneCols

\* _set_gold_colname(match_type)
set_gold_colname(o, match_type) ==
  CASE match_type = "default" ->
         Ok([o EXCEPT !.flags_gold_colname = "meas_FLAGS_GOLD"])
    [] match_type = "mof_only" ->
         Ok([o EXCEPT !.flags_gold_colname = "meas_FLAGS_GOLD_MOF_ONLY"])
    [] match_type = "sof_only" ->
         Ok([o EXCEPT !.flags_gold_colname = "meas_FLAGS_GOLD_SOF_ONLY"])
    [] OTHER -> Raise(InvalidVariantError, o)

\* a comparison of a cell of a (possibly masked) column: a masked cell is not
\* selected by np.where
CellEq(v, k) == v # Masked /\ v = k
CellLt(v, k) == v # Masked /\ v < k

\* the gold predicate on one row
GoldPredicate(row, goldcol) ==
  /\ CellEq(row["flags_foreground"], 0)
  /\ CellLt(row["flags_badregions"], 2)
  /\ CellEq(row["flags_footprint"], 1)
  /\ CellLt(row[goldcol], 2)

\* np.where(...) over the rows: the positions where the predicate holds
GoldWhere(t, goldcol) ==
  SortedSeq({i \in 1..Len(t.rows) : GoldPredicate(t.rows[i], goldcol)})

\* the columns the predicate of apply_gold_cuts reads before the gold flag
GoldReadCols == {"flags_foreground", "flags_badregions", "flags_footprint"}

\* apply_gold_cuts(): the dictionary lookup, the presence check, then the
\* predicate, whose column reads raise KeyError on a column that is not there
apply_gold_cuts(o) ==
  IF o.match_type \notin Variants THEN Raise(KeyErr, o)
  ELSE IF ~check_for_cols(o, gold_cut_cols(o.match_type))
  THEN Raise(MissingColumnError, o)
  ELSE IF ~(GoldReadCols \subseteq o.cat.colnames) THEN Raise(KeyErr, o)
  ELSE IF o.flags_gold_colname = Unset THEN Raise(NoGoldColnameError, o)
  ELSE IF o.flags_gold_colname \notin o.cat.colnames THEN Raise(KeyErr, o)
  ELSE Ok(apply_cut(o, GoldWhere(o.cat, o.flags_gold_colname)))

(***************************************************************************)
(* FitsCatalog, GoldFitsCatalog, DetectionCatalog.                         *)
(***************************************************************************)
\* FitsCatalog._load_catalog: Table(fitsio.read(filename, columns=cols))
FitsLoad(o, file) ==
  IF o.cols.none
  THEN Ok([o EXCEPT !.cat = file, !.Nobjs = TLen(file)])
  ELSE IF ~(o.cols.names \subseteq file.colnames) THEN Raise(ValueErr, o)
  ELSE LET t == Project(file, o.cols.names)
       IN  Ok([o EXCEPT !.cat = t, !.Nobjs = TLen(t)])

\* FitsCatalog(filename, cols): Catalog.__init__
FitsCatalogInit(file, cols) ==
  FitsLoad([NoObj EXCEPT !.kind = "FitsCatalog", !.cols = cols], file)

\* GoldFitsCatalog(filename, cols, match_type)
GoldFitsCatalogInit(file, cols, match_type) ==
  LET r == FitsLoad([NoObj EXCEPT !.kind = "GoldFitsCatalog",
                                  !.cols = GoldCatalogInitCols(cols)], file)
  IN  IF r.err # "" THEN r
      ELSE Ok([r.obj EXCEPT !.match_type = match_type])

\* np.unique(bal_id): the distinct identifiers
Unique(t) == { t.rows[i]["bal_id"] : i \in 1..Len(t.rows) }

\* the occurrences of an identifier: np.where(bal_id == did)[0]
Occurrences(t, did) ==
  SortedSeq({i \in 1..Len(t.rows) : t.rows[i]["bal_id"] = did})

\* unq[np.where(unq_cnt > 1)], in the increasing order np.unique gives
DupIds(t) == SortedSeq({d \in Unique(t) : Len(Occurrences(t, d)) > 1})

\* the loop removing indx[-1], the last occurrence
RowToRemoveLast(indx) == indx[Len(indx)]

\* which of the occurrences the loop removes: indx[0]
RowToRemove(indx) == indx[1]

\* for did in dup_ids: remove_row(np.where(bal_id == did)[0][0])
RECURSIVE RemoveDuplicates(_, _)
RemoveDuplicates(t, dup_ids) ==
  IF dup_ids = << >> THEN t
  ELSE RemoveDuplicates(RemoveRow(t, RowToRemove(Occurrences(t, Head(dup_ids)))),
                        Tail(dup_ids))

\* the assertion compiled away
IntegrityAssertionOff(Nobjs, Nbefore, Ndups) == TRUE

\* assert self.Nobjs == (Nbefore - Ndups)
IntegrityAssertion(Nobjs, Nbefore, Ndups) == Nobjs = Nbefore - Ndups

\* _check_for_duplicates()
check_for_duplicates(o) ==
  IF "bal_id" \notin o.cat.colnames THEN Raise(KeyErr, o)
  ELSE LET Nunq == Cardinality(Unique(o.cat))
       IN  IF Nunq = o.Nobjs THEN Ok(o)
           ELSE LET Ndups == o.Nobjs - Nunq
                    Nbefore == o.Nobjs
                    c == RemoveDuplicates(o.cat, DupIds(o.cat))
                    o2 == [o EXCEPT !.cat = c, !.Nobjs = TLen(c)]
                IN  IF IntegrityAssertion(o2.Nobjs, Nbefore, Ndups)
                    THEN Ok(o2)
                    ELSE Raise(IntegrityError, o2)

\* DetectionCatalog(filename, cols, match_type)
DetectionCatalogInit(file, cols, match_type) ==
  LET r == FitsLoad([NoObj EXCEPT !.kind = "DetectionCatalog",
                                  !.cols = GoldCatalogInitCols(cols)], file)
  IN  IF r.err # "" THEN r
      ELSE check_for_duplicates([r.obj EXCEPT !.match_type = match_type])

(***************************************************************************)
(* H5Catalog, McalCatalog.                                                 *)
(***************************************************************************)
\* a set of column names as a list, in column order
RECURSIVE OrderedNames(_)
OrderedNames(S) ==
  IF S = {} THEN << >>
  ELSE LET c == CHOOSE x \in S : \A y \in S : Pos(x) <= Pos(y)
       IN  << c >> \o OrderedNames(S \ {c})

\* for col in self.cols: self._cat[col] = self._h5cat[path][:]
RECURSIVE H5LoadCols(_, _, _)
H5LoadCols(t, store, cols) ==
  IF cols = << >> THEN [err |-> "", cat |-> t]
  ELSE IF Head(cols) \notin store.colnames THEN [err |-> KeyErr, cat |-> t]
  ELSE H5LoadCols(SetColumn(t, Head(cols), Column(store, Head(cols))),
                  store, Tail(cols))

\* H5Catalog._load_catalog, after h5py.File(filename) has opened the store
H5Load(o, store) ==
  LET r == IF o.cols.none THEN [err |-> "", cat |-> EmptyTable]
           ELSE H5LoadCols(EmptyTable, store, OrderedNames(o.cols.names))
  IN  IF r.err # "" THEN Raise(r.err, [o EXCEPT !.cat = r.cat])
      ELSE Ok([o EXCEPT !.cat = r.cat, !.Nobjs = TLen(r.cat)])

\* H5Catalog(filename, basepath, cols)
H5CatalogInit(store, cols) ==
  H5Load([NoObj EXCEPT !.kind = "H5Catalog", !.cols = cols], store)

\* add_col(col), the handle open
add_col(o, store, col) ==
  IF col \notin store.colnames THEN Raise(KeyErr, o)
  ELSE IF ~CanSetColumn(o.cat, Column(store, col)) THEN Raise(ValueErr, o)
  ELSE Ok([o EXCEPT !.cat = SetColumn(o.cat, col, Column(store, col))])

\* delete_col(col)
delete_col(o, col) ==
  IF col \notin o.cat.colnames THEN Raise(KeyErr, o)
  ELSE Ok([o EXCEPT !.cat = RemoveColumn(o.cat, col)])

\* __setitem__(key, value), value a column
setitem(o, key, value) ==
  IF ~CanSetColumn(o.cat, value) THEN Raise(ValueErr, o)
  ELSE Ok([o EXCEPT !.cat = SetColumn(o.cat, key, value)])

\* __delitem__(key)
delitem(o, key) ==
  IF key \notin o.cat.colnames THEN Raise(KeyErr, o)
  ELSE Ok([o EXCEPT !.cat = RemoveColumn(o.cat, key)])

\* the column calc_mags reads for band b: 'flux_{}'.format(b)
FluxColumnOfBand(b) == "flux_" \o b

\* the column calc_mags writes for band b: 'mag_{}'.format(b)
MagColumnOfBand(b) == "mag_" \o b

\* for b in bands: self._cat['mag_b'] = self.flux2mag(self._cat['flux_b'])
RECURSIVE CalcMagsLoop(_, _)
CalcMagsLoop(t, bands) ==
  IF bands = << >> THEN [err |-> "", cat |-> t]
  ELSE LET b == Head(bands)
           src == FluxColumnOfBand(b)
       IN  IF src \notin t.colnames THEN [err |-> KeyErr, cat |-> t]
           ELSE CalcMagsLoop(
                  SetColumn(t, MagColumnOfBand(b),
                            [i \in 1..Len(t.rows) |-> flux2mag(t.rows[i][src])]),
                  Tail(bands))

\* fluxes = [c for c in colnames if 'flux' in c.lower()]
Fluxes(t) == OrderedNames({c \in t.colnames : HasFlux(c)})

\* bands = [f[-1] for f in fluxes]
Bands(t) == [i \in 1..Len(Fluxes(t)) |-> LastChar(Fluxes(t)[i])]

\* calc_mags()
calc_mags(o) ==
  LET r == CalcMagsLoop(o.cat, Bands(o.cat))
  IN  [err |-> r.err, obj |-> [o EXCEPT !.cat = r.cat]]

\* McalCatalog(filename, basepath, cols)
McalCatalogInit(store, cols) ==
  LET r == H5Load([NoObj EXCEPT !.kind = "McalCatalog", !.cols = cols], store)
  IN  IF r.err # "" THEN r ELSE calc_mags(r.obj)

shape_cut_cols == {"flags", "T", "psf_T", "snr"}

\* (T / psf_T) > 0.5 in floating point: inf and nan for psf_T = 0
RatioAboveHalf(T, psf_T) ==
  IF psf_T > 0 THEN 2 * T > psf_T
  ELSE IF psf_T < 0 THEN 2 * T < psf_T
  ELSE T > 0

\* the shape predicate on one row
ShapePredicate(row) ==
  /\ row["flags"] = 0
  /\ RatioAboveHalf(row["T"], row["psf_T"])
  /\ row["snr"] > 10
  /\ row["snr"] < 100

ShapeWhere(t) == SortedSeq({i \in 1..Len(t.rows) : ShapePredicate(t.rows[i])})

\* apply_shape_cuts()
apply_shape_cuts(o) ==
  IF ~check_for_cols(o, shape_cut_cols) THEN Raise(MissingColumnError, o)
  ELSE IF ~({"flags", "T", "psf_T", "snr"} \subseteq o.cat.colnames)
  THEN Raise(KeyErr, o)
  ELSE Ok(apply_cut(o, ShapeWhere(o.cat)))

(***************************************************************************)
(* BalrogMcalCatalog.                                                      *)
(***************************************************************************)
\* the join keys: join(mcal, det, join_type='left') names none, so astropy
\* takes every column name the two tables share
JoinKeys(left, right) == OrderedNames(left.colnames \cap right.colnames)

RowsMatch(l, r, keys) == \A k \in 1..Len(keys) : l[keys[k]] = r[keys[k]]

\* a left row beside a right row, or beside masked cells when r is << >>
MergeRows(l, r, left, right) ==
  [c \in left.colnames \cup right.colnames |->
     IF c \in left.colnames THEN l[c]
     ELSE IF r = << >> THEN Masked ELSE r[1][c]]

\* the output rows of one left row
RowsOfLeft(left, right, keys, i) ==
  LET m == SortedSeq({j \in 1..Len(right.rows) :
                        RowsMatch(left.rows[i], right.rows[j], keys)})
  IN  IF m = << >> THEN << MergeRows(left.rows[i], << >>, left, right) >>
      ELSE [k \in 1..Len(m) |->
              MergeRows(left.rows[i], << right.rows[m[k]] >>, left, right)]

RECURSIVE JoinFrom(_, _, _, _)
JoinFrom(left, right, keys, i) ==
  IF i > Len(left.rows) THEN << >>
  ELSE RowsOfLeft(left, right, keys, i) \o JoinFrom(left, right, keys, i + 1)

\* r1 sorts before r2 on the keys
KeyLess(r1, r2, keys) ==
  \E k \in 1..Len(keys) :
     /\ r1[keys[k]] < r2[keys[k]]
     /\ \A m \in 1..(k - 1) : r1[keys[m]] = r2[keys[m]]

InsertRow(s, r, keys) ==
  LET n == Cardinality({i \in 1..Len(s) : ~KeyLess(r, s[i], keys)})
  IN  SubSeq(s, 1, n) \o << r >> \o SubSeq(s, n + 1, Len(s))

\* the output of a join comes sorted on the keys
RECURSIVE SortRows(_, _)
SortRows(s, keys) ==
  IF s = << >> THEN << >>
  ELSE InsertRow(SortRows(SubSeq(s, 1, Len(s) - 1), keys), s[Len(s)], keys)

\* astropy.table.join(left, right, join_type='left'); "" is the error result
CanJoin(left, right) == JoinKeys(left, right) # << >>

Join(left, right) ==
  [colnames |-> left.colnames \cup right.colnames,
   rows |-> SortRows(JoinFrom(left, right, JoinKeys(left, right), 1),
                     JoinKeys(left, right))]

\* _join(mcal, det)
join_catalogs(o, mcal, det, save_all) ==
  IF ~CanJoin(mcal, det) THEN Raise(MergeErr, o)
  ELSE Ok([o EXCEPT !.cat = Join(mcal, det),
                    !.mcal = IF save_all THEN << mcal >> ELSE << >>,
                    !.det = IF save_all THEN << det >> ELSE << >>])

\* BalrogMcalCatalog._load_catalog
BalrogLoad(o, store, file, mcal_cols, det_cols, save_all) ==
  LET m1 == McalCatalogInit(store, mcal_cols)
      m2 == calc_mags(m1.obj)
      d == DetectionCatalogInit(file, det_cols, "default")
  IN  IF m1.err # "" THEN Raise(m1.err, o)
      ELSE IF m2.err # "" THEN Raise(m2.err, o)
      ELSE IF d.err # "" THEN Raise(d.err, o)
      ELSE join_catalogs(o, m2.obj.cat, d.obj.cat, save_all)

\* BalrogMcalCatalog(mcal_file, det_file, mcal_cols, det_cols, match_type,
\* save_all); opened tells whether the store was opened before the outcome
BalrogMcalCatalogInit(store, file, mcal_cols, det_cols, match_type, save_all) ==
  LET o == [NoObj EXCEPT !.kind = "BalrogMcalCatalog",
                         !.match_type = match_type]
      g == set_gold_colname(o, match_type)
  IN  IF g.err # "" THEN [err |-> g.err, obj |-> g.obj, opened |-> FALSE]
      ELSE LET r == BalrogLoad(g.obj, store, file, mcal_cols, det_cols, save_all)
           IN  [err |-> r.err, obj |-> r.obj, opened |-> TRUE]

(***************************************************************************)
(* The sources on disk.                                                    *)
(***************************************************************************)
DetFileCols ==
  {"bal_id", "flags_foreground", "flags_badregions", "flags_footprint",
   "meas_FLAGS_GOLD", "meas_FLAGS_GOLD_MOF_ONLY", "meas_FLAGS_GOLD_SOF_ONLY",
   "flags"}

\* a row of the detection file: its identifier and which flag, if any, fails
DetRow(id, pat) ==
  [c \in DetFileCols |->
     CASE c = "bal_id" -> id
       [] c = "flags_foreground" -> IF pat = "fg" THEN 1 ELSE 0
       [] c = "flags_badregions" -> IF pat = "br" THEN 2 ELSE 1
       [] c = "flags_footprint" -> IF pat = "fp" THEN 0 ELSE 1
       [] c = "meas_FLAGS_GOLD" -> IF pat = "gold" THEN 2 ELSE 0
       [] c = "meas_FLAGS_GOLD_MOF_ONLY" -> IF pat = "mof" THEN 2 ELSE 1
       [] c = "meas_FLAGS_GOLD_SOF_ONLY" -> IF pat = "sof" THEN 2 ELSE 0
       [] c = "flags" -> 0]

\* the sequences over S of length at most n
SeqsUpTo(S, n) == UNION { [1..k -> S] : k \in 0..n }

Ids == 1..MaxId

\* detection files of Spec: well-formed (row i carries identifier i)
SpecPats == {"br", "mof"}
SpecFiles ==
  { [colnames |-> DetFileCols,
     rows |-> [i \in 1..Len(p) |-> DetRow(i, p[i])]] :
    p \in SeqsUpTo(SpecPats, MaxRows) }

\* detection files of SpecDup: any identifiers, repeated or not
DupPats == {"pass", "br"}
DupFiles ==
  { [colnames |-> DetFileCols,
     rows |-> [i \in 1..Len(p) |-> DetRow(p[i][1], p[i][2])]] :
    p \in SeqsUpTo(Ids \X DupPats, MaxDupRows) }

StoreCols == {"bal_id", "flags", "T", "psf_T", "snr", "flux_r", "FLUX_g"}

\* a row of the shape store; what it measures goes with its identifier
McalRow(id) ==
  [c \in StoreCols |->
     CASE c = "bal_id" -> id
       [] c = "flags" -> 0
       [] c = "T" -> IF id = 3 THEN 1 ELSE 2
       [] c = "psf_T" -> 2
       [] c = "snr" -> IF id = 2 THEN 10 ELSE 50
       [] c = "flux_r" -> IF id = 2 THEN 0 ELSE 10
       [] c = "FLUX_g" -> 100]

\* shape stores of Spec: consecutive identifiers from 1 or from 2, so that the
\* last row may have no detection
Stores ==
  { [colnames |-> StoreCols, rows |-> [i \in 1..n |-> McalRow(i + shift)]] :
    n \in 0..MaxRows, shift \in 0..1 }

\* the arguments the constructors are called with
FitsColsChoices == {NoneCols, Cols({"bal_id", "flags_foreground"})}
H5ColsChoices ==
  {NoneCols,
   Cols({"bal_id", "flags", "T", "psf_T", "snr", "flux_r"}),
   Cols({"flags", "flux_r"}),
   Cols({"bal_id", "FLUX_g"}),
   Cols({"bal_id", "nosuch"})}
MatchTypes == Variants \cup {"bogus"}
OpCols == {"snr", "flags_badregions"}

(***************************************************************************)
(* The state machine.                                                      *)
(***************************************************************************)
NoHandle == [state |-> "none", owner |-> "none", closes |-> 0]

Call(op, cols, match_type, col) ==
  [op |-> op, cols |-> cols, match_type |-> match_type, col |-> col]

NoCall == [op |-> "", cols |-> NoneCols, match_type |-> Unset, col |-> ""]

InitState ==
  /\ obj = NoObj
  /\ phase = "new"
  /\ h5cat = NoHandle
  /\ err = ""
  /\ last = NoCall

Init == fits \in SpecFiles /\ h5 \in Stores /\ InitState

InitDup == fits \in DupFiles /\ h5 = [colnames |-> StoreCols, rows |-> << >>]
           /\ InitState

\* a constructor returned or raised
Constructed(r) ==
  /\ obj' = r.obj
  /\ err' = r.err
  /\ phase' = IF r.err = "" THEN "live" ELSE "failed"

\* a method of the live object returned or raised
Called(r) ==
  /\ obj' = r.obj
  /\ err' = r.err
  /\ UNCHANGED phase

GoldKinds == {"GoldFitsCatalog", "DetectionCatalog", "BalrogMcalCatalog"}
H5Kinds == {"H5Catalog", "McalCatalog"}

NewFitsCatalog(cols) ==
  /\ phase = "new"
  /\ Constructed(FitsCatalogInit(fits, cols))
  /\ last' = Call("FitsCatalog", cols, Unset, "")
  /\ UNCHANGED <<fits, h5, h5cat>>

NewGoldFitsCatalog(cols, match_type) ==
  /\ phase = "new"
  /\ Constructed(GoldFitsCatalogInit(fits, cols, match_type))
  /\ last' = Call("GoldFitsCatalog", cols, match_type, "")
  /\ UNCHANGED <<fits, h5, h5cat>>

NewDetectionCatalog(cols, match_type) ==
  /\ phase = "new"
  /\ Constructed(DetectionCatalogInit(fits, cols, match_type))
  /\ last' = Call("DetectionCatalog", cols, match_type, "")
  /\ UNCHANGED <<fits, h5, h5cat>>

\* h5py.File(filename) opens the store first; a constructor that raises leaves
\* no catalog owning the handle
NewH5Catalog(cols) ==
  /\ phase = "new"
  /\ LET r == H5CatalogInit(h5, cols)
     IN  /\ Constructed(r)
         /\ h5cat' = [state |-> "open", closes |-> 0,
                      owner |-> IF r.err = "" THEN "alive" ELSE "gone"]
  /\ last' = Call("H5Catalog", cols, Unset, "")
  /\ UNCHANGED <<fits, h5>>

NewMcalCatalog(cols) ==
  /\ phase = "new"
  /\ LET r == McalCatalogInit(h5, cols)
     IN  /\ Constructed(r)
         /\ h5cat' = [state |-> "open", closes |-> 0,
                      owner |-> IF r.err = "" THEN "alive" ELSE "gone"]
  /\ last' = Call("McalCatalog", cols, Unset, "")
  /\ UNCHANGED <<fits, h5>>

\* the McalCatalog made while loading is local to _load_catalog: it is gone
\* when the constructor returns or raises
NewBalrogMcalCatalog(mcal_cols, det_cols, match_type, save_all) ==
  /\ phase = "new"
  /\ LET r == BalrogMcalCatalogInit(h5, fits, mcal_cols, det_cols, match_type,
                                    save_all)
     IN  /\ Constructed(r)
         /\ h5cat' = IF r.opened
                     THEN [state |-> "open", closes |-> 0, owner |-> "gone"]
                     ELSE h5cat
  /\ last' = Call("BalrogMcalCatalog", mcal_cols, match_type, "")
  /\ UNCHANGED <<fits, h5>>

ApplyCut(cut) ==
  /\ phase = "live"
  /\ cut \subseteq 1..TLen(obj.cat)
  /\ Called(Ok(apply_cut(obj, SortedSeq(cut))))
  /\ last' = Call("apply_cut", NoneCols, Unset, "")
  /\ UNCHANGED <<fits, h5, h5cat>>

ApplyGoldCuts ==
  /\ phase = "live"
  /\ obj.kind \in GoldKinds
  /\ Called(apply_gold_cuts(obj))
  /\ last' = Call("apply_gold_cuts", NoneCols, Unset, "")
  /\ UNCHANGED <<fits, h5, h5cat>>

ApplyShapeCuts ==
  /\ phase = "live"
  /\ obj.kind = "McalCatalog"
  /\ Called(apply_shape_cuts(obj))
  /\ last' = Call("apply_shape_cuts", NoneCols, Unset, "")
  /\ UNCHANGED <<fits, h5, h5cat>>

CalcMags ==
  /\ phase = "live"
  /\ obj.kind = "McalCatalog"
  /\ Called(calc_mags(obj))
  /\ last' = Call("calc_mags", NoneCols, Unset, "")
  /\ UNCHANGED <<fits, h5, h5cat>>

\* reading through a closed handle raises
AddCol(col) ==
  /\ phase = "live"
  /\ obj.kind \in H5Kinds
  /\ Called(IF h5cat.state = "open" THEN add_col(obj, h5, col)
            ELSE Raise(ValueErr, obj))
  /\ last' = Call("add_col", NoneCols, Unset, col)
  /\ UNCHANGED <<fits, h5, h5cat>>

DeleteCol(col) ==
  /\ phase = "live"
  /\ obj.kind \in H5Kinds
  /\ Called(delete_col(obj, col))
  /\ last' = Call("delete_col", NoneCols, Unset, col)
  /\ UNCHANGED <<fits, h5, h5cat>>

SetItem(key, n) ==
  /\ phase = "live"
  /\ Called(setitem(obj, key, [i \in 1..n |-> 10]))
  /\ last' = Call("__setitem__", NoneCols, Unset, key)
  /\ UNCHANGED <<fits, h5, h5cat>>

DelItem(key) ==
  /\ phase = "live"
  /\ Called(delitem(obj, key))
  /\ last' = Call("__delitem__", NoneCols, Unset, key)
  /\ UNCHANGED <<fits, h5, h5cat>>

\* an explicit call of __delete__(): self._h5cat.close(), then
\* super(Catalog, self).__delete__(), which object does not have
Delete ==
  /\ phase = "live"
  /\ obj.kind \in H5Kinds
  /\ h5cat.closes < MaxClose
  /\ h5cat' = [h5cat EXCEPT !.state = "closed", !.closes = @ + 1]
  /\ err' = NoSuperDeleteError
  /\ last' = Call("__delete__", NoneCols, Unset, "")
  /\ UNCHANGED <<fits, h5, obj, phase>>

\* the catalog is dropped.  __delete__ is the descriptor hook, not the
\* finalizer __del__: dropping the catalog runs none of the class's code
Discard ==
  /\ phase = "live"
  /\ phase' = "discarded"
  /\ h5cat' = IF h5cat.owner = "alive" THEN [h5cat EXCEPT !.owner = "gone"]
              ELSE h5cat
  /\ err' = ""
  /\ last' = Call("discard", NoneCols, Unset, "")
  /\ UNCHANGED <<fits, h5, obj>>

Next ==
  \/ \E cols \in FitsColsChoices : NewFitsCatalog(cols)
  \/ \E cols \in FitsColsChoices, mt \in MatchTypes : NewGoldFitsCatalog(cols, mt)
  \/ \E cols \in FitsColsChoices, mt \in MatchTypes : NewDetectionCatalog(cols, mt)
  \/ \E cols \in H5ColsChoices : NewH5Catalog(cols)
  \/ \E cols \in H5ColsChoices : NewMcalCatalog(cols)
  \/ \E mc \in H5ColsChoices, dc \in FitsColsChoices, mt \in MatchTypes,
        sa \in BOOLEAN : NewBalrogMcalCatalog(mc, dc, mt, sa)
  \/ \E cut \in SUBSET (1..(2 * MaxRows)) : ApplyCut(cut)
  \/ ApplyGoldCuts
  \/ ApplyShapeCuts
  \/ CalcMags
  \/ \E col \in OpCols : AddCol(col)
  \/ \E col \in OpCols : DeleteCol(col)
  \/ \E n \in 0..MaxRows : SetItem("snr", n)
  \/ \E key \in OpCols : DelItem(key)
  \/ Delete
  \/ Discard

Spec == Init /\ [][Next]_vars

\* the calls that decide whether a column is there and the two fixed cuts
NextCuts ==
  \/ \E cols \in FitsColsChoices, mt \in MatchTypes : NewGoldFitsCatalog(cols, mt)
  \/ \E cols \in FitsColsChoices, mt \in MatchTypes : NewDetectionCatalog(cols, mt)
  \/ \E cols \in H5ColsChoices : NewMcalCatalog(cols)
  \/ \E mc \in H5ColsChoices, dc \in FitsColsChoices, mt \in MatchTypes,
        sa \in BOOLEAN : NewBalrogMcalCatalog(mc, dc, mt, sa)
  \/ ApplyGoldCuts
  \/ ApplyShapeCuts
  \/ \E col \in OpCols : AddCol(col)
  \/ \E key \in OpCols : DelItem(key)

SpecCuts == Init /\ [][NextCuts]_vars

NextDup ==
  \E cols \in FitsColsChoices : NewDetectionCatalog(cols, "default")

SpecDup == InitDup /\ [][NextDup]_vars

(***************************************************************************)
(* Duplicate repair (SpecDup).                                             *)
(***************************************************************************)
BalIds(t) == Column(t, "bal_id")

NoRepeatedId(t) ==
  \A i, j \in 1..Len(t.rows) :
     t.rows[i]["bal_id"] = t.rows[j]["bal_id"] => i = j

CountOf(t, id) == Cardinality({i \in 1..Len(t.rows) : t.rows[i]["bal_id"] = id})

DuplicatedIds(t) == {id \in Ids : CountOf(t, id) > 1}

\* the rows that are not the first of a duplicated identifier
NotFirstOfDuplicate(t) ==
  {i \in 1..Len(t.rows) :
     \/ CountOf(t, t.rows[i]["bal_id"]) = 1
     \/ \E j \in 1..(i - 1) : t.rows[j]["bal_id"] = t.rows[i]["bal_id"]}

DetectionBuilt == last.op = "DetectionCatalog" /\ phase \in {"live", "failed"}

\* C1: constructing a DetectionCatalog over any bal_id column never yields a
\* table with a repeated bal_id: construction completes with every bal_id
\* occurring once, or it fails with the integrity failure of the duplicate
\* repair; for identifiers [1,2,2,2] it fails.
C1_UniqueOrIntegrityFailure ==
  DetectionBuilt =>
    /\ \/ phase = "live" /\ err = "" /\ NoRepeatedId(obj.cat)
       \/ phase = "failed" /\ err = IntegrityError
    /\ BalIds(fits) = << 1, 2, 2, 2 >> => phase = "failed"

C1_Witness ==
  /\ DetectionBuilt
  /\ BalIds(fits) = << 1, 2, 2, 2 >>
  /\ phase = "failed"
  /\ err = IntegrityError

\* C2: when every duplicated bal_id occurs exactly twice, the repair removes
\* the first occurrence of each duplicated identifier and nothing else, keeps
\* the other rows in their order, and ends with row_count = original_count
\* minus the number of duplicated identifiers, the assertion passing; without
\* duplicates the table and row_count are unchanged.
C2_RemovesFirstOccurrence ==
  (DetectionBuilt /\ \A id \in Ids : CountOf(fits, id) <= 2) =>
    /\ phase = "live"
    /\ err = ""
    /\ obj.cat = TakeRows(fits, SortedSeq(NotFirstOfDuplicate(fits)))
    /\ obj.Nobjs = Len(fits.rows) - Cardinality(DuplicatedIds(fits))
    /\ obj.Nobjs = TLen(obj.cat)

C2_Witness ==
  /\ DetectionBuilt
  /\ phase = "live"
  /\ BalIds(fits) = << 1, 2, 2, 3 >>
  /\ fits.rows[2] # fits.rows[3]
  /\ BalIds(obj.cat) = << 1, 2, 3 >>
  /\ obj.cat.rows[2] = fits.rows[3]
  /\ obj.Nobjs = 3

(***************************************************************************)
(* The catalog's life (Spec, SpecCuts).                                    *)
(***************************************************************************)
\* the gold-flag column of a variant
VariantGoldColumn(match_type) ==
  CASE match_type = "default"  -> "meas_FLAGS_GOLD"
    [] match_type = "mof_only" -> "meas_FLAGS_GOLD_MOF_ONLY"
    [] match_type = "sof_only" -> "meas_FLAGS_GOLD_SOF_ONLY"

VariantCols(match_type) ==
  {"flags_foreground", "flags_badregions", "flags_footprint",
   VariantGoldColumn(match_type)}

PassesGold(row, match_type) ==
  /\ row["flags_foreground"] = 0
  /\ row["flags_badregions"] \in {0, 1}
  /\ row["flags_footprint"] = 1
  /\ row[VariantGoldColumn(match_type)] \in {0, 1}

\* C3: for each variant and each gold-capable catalog kind, apply_gold_cuts
\* on a table holding the variant's four columns keeps exactly the rows that
\* pass the four conditions, in their order.
C3_GoldCutsKeepExactly ==
  [][(/\ last'.op = "apply_gold_cuts"
      /\ obj.match_type \in Variants
      /\ VariantCols(obj.match_type) \subseteq obj.cat.colnames)
     => /\ err' = ""
        /\ obj'.cat =
             TakeRows(obj.cat,
                      SortedSeq({i \in 1..Len(obj.cat.rows) :
                                   PassesGold(obj.cat.rows[i], obj.match_type)}))
    ]_vars

\* C4: in every state reached by constructing a catalog and applying
\* apply_cut, add_col, delete_col and column set/delete operations, the cached
\* row_count (Nobjs) is defined and equals len(table).
C4_RowCountIsLen ==
  phase = "live" => obj.Nobjs # Undef /\ obj.Nobjs = TLen(obj.cat)

\* C5: a cut whose required column is absent fails with the missing-column
\* error and leaves the rows, the columns and row_count as they were; with
\* every required column present the presence check raises nothing.
C5_MissingColumnFailsBeforeCut ==
  [][/\ (/\ last'.op = "apply_gold_cuts"
         /\ obj.match_type \in Variants
         /\ ~(VariantCols(obj.match_type) \subseteq obj.cat.colnames))
        => (err' = MissingColumnError /\ obj' = obj)
     /\ (/\ last'.op = "apply_shape_cuts"
         /\ ~({"flags", "T", "psf_T", "snr"} \subseteq obj.cat.colnames))
        => (err' = MissingColumnError /\ obj' = obj)
     /\ (/\ last'.op = "apply_gold_cuts"
         /\ obj.match_type \in Variants
         /\ VariantCols(obj.match_type) \subseteq obj.cat.colnames)
        => err' # MissingColumnError
     /\ (/\ last'.op = "apply_shape_cuts"
         /\ {"flags", "T", "psf_T", "snr"} \subseteq obj.cat.colnames)
        => err' # MissingColumnError
    ]_vars

C5_Witness ==
  /\ last.op = "apply_gold_cuts"
  /\ obj.match_type \in Variants
  /\ ~(VariantCols(obj.match_type) \subseteq obj.cat.colnames)
  /\ TLen(obj.cat) > 0
  /\ err = MissingColumnError

GoldConstructors == {"GoldFitsCatalog", "DetectionCatalog", "BalrogMcalCatalog"}

\* C6: a gold-capable catalog asked for a variant outside {default, mof_only,
\* sof_only} fails at construction with the invalid-variant error, before any
\* source is loaded; no such catalog is loaded with an unrecognized variant.
C6_InvalidVariantRejected ==
  /\ (last.op \in GoldConstructors /\ last.match_type \notin Variants)
       => /\ phase = "failed"
          /\ err = InvalidVariantError
          /\ obj.cat = EmptyTable
          /\ h5cat.state = "none"
  /\ (phase = "live" /\ obj.kind \in GoldKinds) => obj.match_type \in Variants

\* C7: the store handle is opened once at load and closed exactly once when
\* the owning catalog is discarded, also when loading or a later operation
\* fails: no discarded catalog leaves its handle open, no handle is closed
\* twice.
C7_HandleClosedOnce ==
  /\ h5cat.owner = "gone" => (h5cat.state = "closed" /\ h5cat.closes = 1)
  /\ h5cat.closes <= 1

\* C8: after BalrogMcalCatalog construction succeeds the joined table has
\* exactly as many rows as the shape table.
C8_JoinKeepsShapeRows ==
  (last.op = "BalrogMcalCatalog" /\ phase = "live")
    => TLen(obj.cat) = Len(h5.rows)

FitsConstructors == {"FitsCatalog", "GoldFitsCatalog", "DetectionCatalog"}

\* C9: a columnar-file catalog built with a column subset loads exactly that
\* subset, and the full column set of the source only when none was asked.
C9_LoadsRequestedColumns ==
  (last.op \in FitsConstructors /\ phase = "live")
    => obj.cat.colnames =
         IF last.cols.none THEN fits.colnames ELSE last.cols.names

\* the columns of the store a McalCatalog was asked to load
LoadedStoreCols == IF last.cols.none THEN {} ELSE last.cols.names

\* C10: after calc_mags, every loaded column whose name contains "flux" in
\* any letter case has a companion mag_<band> holding flux_to_magnitude of
\* that same column, and calc_mags completes without error.
C10_MagOfEveryFluxColumn ==
  (last.op = "McalCatalog" /\ LoadedStoreCols \subseteq h5.colnames)
    => /\ err = ""
       /\ \A c \in LoadedStoreCols :
            HasFlux(c) =>
              /\ MagColumnOfBand(LastChar(c)) \in obj.cat.colnames
              /\ \A i \in 1..Len(obj.cat.rows) :
                   obj.cat.rows[i][MagColumnOfBand(LastChar(c))]
                     = flux2mag(h5.rows[i][c])

====
